---- MODULE Spec2Model ----
(***************************************************************************)
(* A model of the B-tree of src/btree.h and src/node.h.                    *)
(*                                                                         *)
(* The nodes live in a heap (a sequence of node records, addressed by      *)
(* their index).  Arrays keep the source's 0-based indices.  A child slot  *)
(* holds NULL, the address of a node, or WILD: the indeterminate word of   *)
(* a slot of `new Node*[M]` that was never assigned, or of a read past     *)
(* the end of the array.  A key slot that was never assigned holds UNDEF.  *)
(* What such a word is, is a choice of the run (the parameters `g' and     *)
(* `w' of the operations).  A read or write through WILD or through the    *)
(* address of a deleted node, and a write outside an array, stop the run   *)
(* (the variable `fault'): nothing the source says holds after it.         *)
(***************************************************************************)
EXTENDS Integers, Sequences, FiniteSets, TLC

\* Bounds of the model.
MinOrder == 2
MaxOrder == 5
MaxKey == 7
MaxOps == 3

NULL == 0
WILD == -1
UNDEF == -1

Orders == MinOrder..MaxOrder
Keys == 1..MaxKey
\* The values an indeterminate key word may turn out to be: a value below
\* every key of the run, or one that coincides with a key.
GarbageKeys == 0..MaxKey
GarbagePtrs == {NULL, WILD}

VARIABLES M, root, heap, n, err, fault, abs, last, ops

vars == <<M, root, heap, n, err, fault, abs, last, ops>>

----------------------------------------------------------------------------
\* Node(M): keys(new TK[M - 1]), children(new Node*[M]), count = 0, leaf = true.
\* Neither array is value-initialised; w is the word found in the child slots.
NewNode(m, w) ==
    [keys     |-> [i \in 0..(m - 2) |-> UNDEF],
     children |-> [i \in 0..(m - 1) |-> w],
     count    |-> 0,
     leaf     |-> TRUE,
     live     |-> TRUE]

\* p is the address of a node that exists.
Valid(h, p) == p \in 1..Len(h) /\ h[p].live

\* Reads of the two arrays; outside the array, or never assigned: the
\* indeterminate word.
KeyIsGarbage(m, nd, i) == ~(i \in 0..(m - 2)) \/ nd.keys[i] = UNDEF
RdKey(m, nd, i, g) == IF KeyIsGarbage(m, nd, i) THEN g ELSE nd.keys[i]
PtrIsGarbage(m, nd, i) == ~(i \in 0..(m - 1))
RdPtr(m, nd, i, w) == IF PtrIsGarbage(m, nd, i) THEN w ELSE nd.children[i]


\* The loop `while (i < node->count && node->keys[i] < key) ++i;'
RECURSIVE FindIdx(_, _, _)
FindIdx(nd, key, i) ==
    IF i < nd.count /\ nd.keys[i] < key THEN FindIdx(nd, key, i + 1) ELSE i

----------------------------------------------------------------------------
\* height(const BNode*): the number of nodes on the children[0] chain, less one.
\* HFault when the chain leaves the nodes that exist.
HFault == -2

RECURSIVE HeightFrom(_, _, _, _)
HeightFrom(h, cur, acc, fuel) ==
    IF cur = NULL THEN acc
    ELSE IF ~Valid(h, cur) \/ fuel = 0 THEN HFault
    ELSE HeightFrom(h, h[cur].children[0], acc + 1, fuel - 1)

Height(h, node) == HeightFrom(h, node, -1, Len(h) + 1)

\* minKey(const BNode*) / maxKey(const BNode*): the walk to the leftmost
\* (rightmost) leaf and the read of its first (last) key slot, whatever count is.
\* UNDEF: the walk left the nodes that exist, or the slot read holds no key.
RECURSIVE MinKeyOf(_, _, _, _)
MinKeyOf(m, h, cur, fuel) ==
    IF ~Valid(h, cur) \/ fuel = 0 THEN UNDEF
    ELSE IF ~h[cur].leaf THEN MinKeyOf(m, h, h[cur].children[0], fuel - 1)
    ELSE h[cur].keys[0]

RECURSIVE MaxKeyOf(_, _, _, _)
MaxKeyOf(m, h, cur, fuel) ==
    IF ~Valid(h, cur) \/ fuel = 0 THEN UNDEF
    ELSE IF ~h[cur].leaf
         THEN IF h[cur].count \in 0..(m - 1)
              THEN MaxKeyOf(m, h, h[cur].children[h[cur].count], fuel - 1)
              ELSE UNDEF
    ELSE IF (h[cur].count - 1) \in 0..(m - 2) THEN h[cur].keys[h[cur].count - 1]
    ELSE UNDEF

\* search(TK key): "found", "absent", or "fault" when the descent leaves the
\* nodes that exist.
RECURSIVE SearchFrom(_, _, _, _)
SearchFrom(h, cur, key, fuel) ==
    IF cur = NULL THEN "absent"
    ELSE IF ~Valid(h, cur) \/ fuel = 0 THEN "fault"
    ELSE LET nd == h[cur]
             idx == FindIdx(nd, key, 0)
         IN IF idx < nd.count /\ key = nd.keys[idx] THEN "found"
            ELSE SearchFrom(h, nd.children[idx], key, fuel - 1)

search(h, r, key) == SearchFrom(h, r, key, Len(h) + 1)

----------------------------------------------------------------------------
\* check_properties(const BNode*).  FALSE also when the check cannot return
\* true because it leaves the nodes that exist.  With count = 0 the bound
\* `count - 1' of the ordering loop wraps around and the loop reads past the
\* key array: the check does not return true there either.
RECURSIVE CheckFrom(_, _, _, _, _)
CheckFrom(m, h, rt, node, fuel) ==
    IF node = NULL THEN TRUE
    ELSE IF ~Valid(h, node) \/ fuel = 0 THEN FALSE
    ELSE LET nd == h[node]
             min_keys == IF node = rt THEN 1 ELSE ((m + 1) \div 2) - 1
             max_keys == m - 1
         IN /\ ~(nd.count < min_keys \/ nd.count > max_keys)
            /\ nd.count >= 1
            /\ \A i \in 0..(nd.count - 2) : ~(nd.keys[i] >= nd.keys[i + 1])
            /\ IF ~nd.leaf
               THEN /\ \A i \in 0..nd.count : nd.children[i] # NULL
                    /\ \A i \in 0..nd.count :
                          CheckFrom(m, h, rt, nd.children[i], fuel - 1)
                    /\ \A i \in 1..nd.count :
                          Height(h, nd.children[i]) = Height(h, nd.children[0])
                    /\ \A i \in 0..(nd.count - 1) :
                          LET min == MaxKeyOf(m, h, nd.children[i], Len(h) + 1)
                              max == MinKeyOf(m, h, nd.children[i + 1], Len(h) + 1)
                          IN ~(nd.keys[i] < min \/ nd.keys[i] >= max)
               ELSE \A i \in 0..nd.count : nd.children[i] = NULL

check_properties(m, h, rt) == CheckFrom(m, h, rt, rt, Len(h) + 1)

\* rangeSearch(BNode*, out, begin, end): the keys pushed to `out', in order.
\* RFault is pushed where the traversal leaves the nodes that exist.
RFault == -1

RECURSIVE RangeFrom(_, _, _, _, _)
RECURSIVE RangeLoop(_, _, _, _, _, _)
RangeFrom(h, node, begin, end, fuel) ==
    IF node = NULL THEN <<>>
    ELSE IF ~Valid(h, node) \/ fuel = 0 THEN <<RFault>>
    ELSE RangeLoop(h, node, begin, end, fuel, 0)

RangeLoop(h, node, begin, end, fuel, i) ==
    LET nd == h[node] IN
    IF i < nd.count
    THEN LET key == nd.keys[i] IN
         (IF begin < key
          THEN RangeFrom(h, nd.children[i], begin, end, fuel - 1) ELSE <<>>)
         \o (IF key >= begin /\ end >= key THEN <<key>> ELSE <<>>)
         \o RangeLoop(h, node, begin, end, fuel, i + 1)
    ELSE RangeFrom(h, nd.children[nd.count], begin, end, fuel - 1)

rangeSearch(h, rt, begin, end) == RangeFrom(h, rt, begin, end, Len(h) + 1)

----------------------------------------------------------------------------
\* insert(BNode*, TK): the variant returned and the heap it leaves.
\*   split = FALSE: the bool alternative, `ins' its value;
\*   split = TRUE : the pair (key, child).
InsRes(h, split, ins, key, child, flt) ==
    [heap |-> h, split |-> split, ins |-> ins, key |-> key, child |-> child,
     fault |-> flt]

\* "Got space left": shift the entries from i on to the right, put the pair at i.
InsertSpare(nd, i, new_key, new_child) ==
    [nd EXCEPT
       !.keys = [j \in DOMAIN nd.keys |->
                    IF j = i THEN new_key
                    ELSE IF j > i /\ j <= nd.count THEN nd.keys[j - 1]
                    ELSE nd.keys[j]],
       !.children = [j \in DOMAIN nd.children |->
                    IF j = i THEN new_child
                    ELSE IF j > i /\ j <= nd.count + 1 THEN nd.children[j - 1]
                    ELSE nd.children[j]],
       !.count = nd.count + 1]

\* The place of the new key in keys_tmp: the first e with
\* `e >= node->count || new_key < node->keys[e]'.
RECURSIVE TmpPos(_, _, _)
TmpPos(nd, new_key, e) ==
    IF e >= nd.count \/ new_key < nd.keys[e] THEN e ELSE TmpPos(nd, new_key, e + 1)

\* The median is taken one place to the right.
Mid_RoundedUp(m) == (m + 1) \div 2

\* The median index of the overflowed list.
Mid(m) == (m - 1) \div 2

\* "Don't got space left": keys_tmp / children_tmp, the new left node lsplit
\* (at address a), and what stays in node.
SplitParts(m, nd, new_key, new_child, w) ==
    LET p == TmpPos(nd, new_key, 0)
        keys_tmp == [j \in 0..(m - 1) |->
                        IF j < p THEN nd.keys[j]
                        ELSE IF j = p THEN new_key ELSE nd.keys[j - 1]]
        children_tmp == [j \in 0..m |->
                        IF j < p THEN nd.children[j]
                        ELSE IF j = p THEN new_child ELSE nd.children[j - 1]]
        mid == Mid(m)
        fresh == NewNode(m, w)
        lcount == mid
        ncount == m - 1 - mid
    IN [lifted |-> keys_tmp[mid],
        lsplit |-> [fresh EXCEPT
                      !.leaf = nd.leaf,
                      !.count = lcount,
                      !.keys = [k \in DOMAIN fresh.keys |->
                                   IF k < lcount THEN keys_tmp[k] ELSE fresh.keys[k]],
                      !.children = [k \in DOMAIN fresh.children |->
                                   IF k <= lcount THEN children_tmp[k]
                                   ELSE fresh.children[k]]],
        node |-> [nd EXCEPT
                      !.count = ncount,
                      !.keys = [k \in DOMAIN nd.keys |->
                                   IF k < ncount THEN keys_tmp[mid + 1 + k]
                                   ELSE nd.keys[k]],
                      !.children = [k \in DOMAIN nd.children |->
                                   IF k <= ncount THEN children_tmp[mid + 1 + k]
                                   ELSE NULL]]]

\* `if (i < node->count && node->keys[i] == key) return false;'
KeyAt(nd, i, key) == i < nd.count /\ nd.keys[i] = key

RECURSIVE InsertRec(_, _, _, _, _, _)
InsertRec(m, h, node, key, w, fuel) ==
    IF node = NULL THEN InsRes(h, TRUE, TRUE, key, NULL, FALSE)
    ELSE IF ~Valid(h, node) \/ fuel = 0 THEN InsRes(h, FALSE, FALSE, key, NULL, TRUE)
    ELSE LET nd0 == h[node]
             i == FindIdx(nd0, key, 0)
         IN IF KeyAt(nd0, i, key)
            THEN InsRes(h, FALSE, FALSE, key, NULL, FALSE)
            ELSE LET r == InsertRec(m, h, nd0.children[i], key, w, fuel - 1) IN
                 IF r.fault \/ ~r.split THEN r
                 ELSE LET nd == r.heap[node] IN
                      IF nd.count < m - 1
                      THEN InsRes([r.heap EXCEPT
                                     ![node] = InsertSpare(nd, i, r.key, r.child)],
                                  FALSE, TRUE, key, NULL, FALSE)
                      ELSE LET s == SplitParts(m, nd, r.key, r.child, w) IN
                           InsRes(Append([r.heap EXCEPT ![node] = s.node], s.lsplit),
                                  TRUE, TRUE, s.lifted, Len(r.heap) + 1, FALSE)

\* insert(TK key): the tree (heap, root, n) it leaves.
TreeRes(h, rt, nn, flt) == [heap |-> h, root |-> rt, n |-> nn, fault |-> flt]

\* The new root takes the old root as its left child.
NewRoot_OldRootLeft(m, w, new_key, new_child, rt) ==
    LET fresh == NewNode(m, w) IN
    [fresh EXCEPT !.leaf = (new_child = NULL),
                  !.keys = [fresh.keys EXCEPT ![0] = new_key],
                  !.count = 1,
                  !.children = [fresh.children EXCEPT ![0] = rt, ![1] = new_child]]

\* The root made when the split reaches above the root: the promoted key,
\* new_child on its left and the old root on its right.
NewRoot(m, w, new_key, new_child, rt) ==
    LET fresh == NewNode(m, w) IN
    [fresh EXCEPT !.leaf = (new_child = NULL),
                  !.keys = [fresh.keys EXCEPT ![0] = new_key],
                  !.count = 1,
                  !.children = [fresh.children EXCEPT ![0] = new_child, ![1] = rt]]

insert(m, h, rt, nn, key, w) ==
    LET result == InsertRec(m, h, rt, key, w, Len(h) + 1) IN
    IF result.fault THEN TreeRes(h, rt, nn, TRUE)
    ELSE IF ~result.split
    THEN TreeRes(result.heap, rt, IF result.ins THEN nn + 1 ELSE nn, FALSE)
    ELSE TreeRes(Append(result.heap, NewRoot(m, w, result.key, result.child, rt)),
                 Len(result.heap) + 1, nn + 1, FALSE)

----------------------------------------------------------------------------
\* remove(const TK&).  The statements of the repair loop run one after the
\* other on a machine state mc: the heap, whether the run has stopped, and
\* the indeterminate words (g for a key, w for a link) with whether one was read.
Machine(m, h, g, w) ==
    [m |-> m, heap |-> h, fault |-> FALSE, g |-> g, w |-> w, ug |-> FALSE, uw |-> FALSE,
     oob |-> FALSE]

Stop(mc) == [mc EXCEPT !.fault = TRUE]

\* The indices of the two arrays of a node: `new TK[M - 1]', `new Node*[M]'.
KeyIndices(m) == 0..(m - 2)
ChildIndices(m) == 0..(m - 1)

\* A write outside an array of a node: the run stops, and oob records that
\* some access of the run was not within its array.
OutOfRange(mc) == [mc EXCEPT !.fault = TRUE, !.oob = TRUE]

\* dst->keys[di] = src->keys[si]
MoveKey(mc, dst, di, src, si) ==
    IF mc.fault THEN mc
    ELSE IF ~Valid(mc.heap, dst) \/ ~Valid(mc.heap, src) THEN Stop(mc)
    ELSE IF ~(di \in KeyIndices(mc.m))
    THEN OutOfRange(mc)
    ELSE LET garb == KeyIsGarbage(mc.m, mc.heap[src], si) IN
         [mc EXCEPT !.heap[dst].keys[di] = RdKey(mc.m, mc.heap[src], si, mc.g),
                    !.ug = @ \/ garb,
                    !.oob = @ \/ ~(si \in KeyIndices(mc.m))]

\* dst->children[di] = src->children[si]
MovePtr(mc, dst, di, src, si) ==
    IF mc.fault THEN mc
    ELSE IF ~Valid(mc.heap, dst) \/ ~Valid(mc.heap, src) THEN Stop(mc)
    ELSE IF ~(di \in ChildIndices(mc.m))
    THEN OutOfRange(mc)
    ELSE LET garb == PtrIsGarbage(mc.m, mc.heap[src], si) IN
         [mc EXCEPT !.heap[dst].children[di] = RdPtr(mc.m, mc.heap[src], si, mc.w),
                    !.uw = @ \/ garb,
                    !.oob = @ \/ ~(si \in ChildIndices(mc.m))]

\* p->count += d
AddCount(mc, p, d) ==
    IF mc.fault THEN mc
    ELSE IF ~Valid(mc.heap, p) \/ mc.heap[p].count + d < 0 THEN Stop(mc)
    ELSE [mc EXCEPT !.heap[p].count = @ + d]

\* delete p
Delete(mc, p) ==
    IF mc.fault THEN mc
    ELSE IF ~Valid(mc.heap, p) THEN Stop(mc)
    ELSE [mc EXCEPT !.heap[p].live = FALSE]

\* A for loop of key (link) assignments: pairs[k] = <<di, si>>, in order.
RECURSIVE MoveKeys(_, _, _, _)
MoveKeys(mc, dst, src, pairs) ==
    IF pairs = <<>> THEN mc
    ELSE MoveKeys(MoveKey(mc, dst, pairs[1][1], src, pairs[1][2]), dst, src, Tail(pairs))

RECURSIVE MovePtrs(_, _, _, _)
MovePtrs(mc, dst, src, pairs) ==
    IF pairs = <<>> THEN mc
    ELSE MovePtrs(MovePtr(mc, dst, pairs[1][1], src, pairs[1][2]), dst, src, Tail(pairs))

\* for (i = lo; i < hi; ++i) a[i + d] = b[i + e]
Up(lo, hi, d, e) == [k \in 1..(hi - lo) |-> <<lo + k - 1 + d, lo + k - 1 + e>>]
\* for (i = hi; i > lo; --i) a[i] = a[i - 1]
Down(hi, lo) == [k \in 1..(hi - lo) |-> <<hi - k + 1, hi - k>>]

\* The descent of remove: the node and index where key is, and the stack.
FindRes(found, cur, idx, st, flt) ==
    [found |-> found, cur |-> cur, idx |-> idx, st |-> st, fault |-> flt]

RECURSIVE RemoveFind(_, _, _, _, _)
RemoveFind(h, cur, key, st, fuel) ==
    IF cur = NULL THEN FindRes(FALSE, NULL, 0, st, FALSE)
    ELSE IF ~Valid(h, cur) \/ fuel = 0 THEN FindRes(FALSE, cur, 0, st, TRUE)
    ELSE LET nd == h[cur]
             idx == FindIdx(nd, key, 0)
         IN IF idx < nd.count /\ key = nd.keys[idx]
            THEN FindRes(TRUE, cur, idx, st, FALSE)
            ELSE RemoveFind(h, nd.children[idx], key, Append(st, cur), fuel - 1)

\* `while (!cur->leaf) { st.push(cur); cur = cur->children[cur->count]; }'
RECURSIVE PredLeaf(_, _, _, _)
PredLeaf(h, cur, st, fuel) ==
    IF ~Valid(h, cur) \/ fuel = 0 THEN FindRes(FALSE, cur, 0, st, TRUE)
    ELSE IF ~h[cur].leaf
    THEN PredLeaf(h, h[cur].children[h[cur].count], Append(st, cur), fuel - 1)
    ELSE FindRes(TRUE, cur, h[cur].count - 1, st, FALSE)

\* `while (pos <= parent->count && parent->children[pos] != cur) ++pos;'
RECURSIVE FindPos(_, _, _)
FindPos(nd, cur, pos) ==
    IF pos <= nd.count /\ nd.children[pos] # cur THEN FindPos(nd, cur, pos + 1) ELSE pos

MinKeys(m) == (m - 1) \div 2

\* CASO 1.1: borrow from the left sibling.
BorrowLeft(mc, cur, parent, left, pos) ==
    LET c == mc.heap[cur].count
        a1 == MoveKey(mc, cur, 0, parent, pos - 1)
        a2 == MoveKeys(a1, cur, cur, Down(c, 0))
        a3 == IF mc.heap[cur].leaf THEN a2
              ELSE MovePtrs(MovePtr(a2, cur, 0, left, mc.heap[left].count),
                            cur, cur, Down(c + 1, 0))
        a4 == AddCount(a3, cur, 1)
        a5 == IF a4.fault THEN a4
              ELSE MoveKey(a4, parent, pos - 1, left, a4.heap[left].count - 1)
    IN AddCount(a5, left, -1)

\* CASO 1.2: borrow from the right sibling.
BorrowRight(mc, cur, parent, right, pos) ==
    LET c == mc.heap[cur].count
        a1 == MoveKey(mc, cur, c, parent, pos)
        a2 == IF mc.heap[cur].leaf THEN a1 ELSE MovePtr(a1, cur, c + 1, right, 0)
        a3 == AddCount(a2, cur, 1)
        a4 == MoveKey(a3, parent, pos, right, 0)
        rc == IF a4.fault THEN 0 ELSE a4.heap[right].count
        a5 == MoveKeys(a4, right, right, Up(0, rc - 1, 0, 1))
        a6 == IF a5.fault \/ a5.heap[right].leaf THEN a5
              ELSE MovePtrs(a5, right, right, Up(0, rc, 0, 1))
    IN AddCount(a6, right, -1)

\* The key shift starts one place too far to the right.
DropFromParent_LateKeyShift(mc, parent, klo, clo) ==
    IF mc.fault THEN mc
    ELSE IF ~Valid(mc.heap, parent) THEN Stop(mc)
    ELSE LET pc == mc.heap[parent].count IN
         IF pc = 0 THEN OutOfRange(mc)
         ELSE LET b1 == MoveKeys(mc, parent, parent, Up(klo + 1, pc - 1, 0, 1))
                  b2 == MovePtrs(b1, parent, parent, Up(clo, pc + 1, 0, 1))
              IN AddCount(b2, parent, -1)

\* The two shifts in the parent after a merge, and `parent->count--'.
\* With parent->count = 0 the bound `parent->count - 1' of the key loop wraps
\* around and the loop writes past the array.
DropFromParent(mc, parent, klo, clo) ==
    IF mc.fault THEN mc
    ELSE IF ~Valid(mc.heap, parent) THEN Stop(mc)
    ELSE LET pc == mc.heap[parent].count IN
         IF pc = 0 THEN OutOfRange(mc)
         ELSE LET b1 == MoveKeys(mc, parent, parent, Up(klo, pc - 1, 0, 1))
                  b2 == MovePtrs(b1, parent, parent, Up(clo, pc + 1, 0, 1))
              IN AddCount(b2, parent, -1)

\* Caso 2.1: merge cur into the left sibling.
MergeLeft(mc, cur, parent, left, pos) ==
    LET a1 == MoveKey(mc, left, mc.heap[left].count, parent, pos - 1)
        a2 == AddCount(a1, left, 1)
        lc == IF a2.fault THEN 0 ELSE a2.heap[left].count
        cc == IF a2.fault THEN 0 ELSE a2.heap[cur].count
        a3 == MoveKeys(a2, left, cur, Up(0, cc, lc, 0))
        a4 == IF a3.fault \/ a3.heap[cur].leaf THEN a3
              ELSE MovePtrs(a3, left, cur, Up(0, cc + 1, lc, 0))
        a5 == AddCount(a4, left, cc)
        a6 == DropFromParent(a5, parent, pos - 1, pos)
    IN Delete(a6, cur)

\* Caso 2.2: merge the right sibling into cur.
MergeRight(mc, cur, parent, right, pos) ==
    LET a1 == MoveKey(mc, cur, mc.heap[cur].count, parent, pos)
        a2 == AddCount(a1, cur, 1)
        cc == IF a2.fault THEN 0 ELSE a2.heap[cur].count
        rc == IF a2.fault THEN 0 ELSE a2.heap[right].count
        a3 == MoveKeys(a2, cur, right, Up(0, rc, cc, 0))
        a4 == IF a3.fault \/ a3.heap[cur].leaf THEN a3
              ELSE MovePtrs(a3, cur, right, Up(0, rc + 1, cc, 0))
        a5 == IF a4.fault THEN a4 ELSE AddCount(a4, cur, a4.heap[right].count)
        a6 == DropFromParent(a5, parent, pos, pos + 1)
    IN Delete(a6, right)

\* `while (!st.empty() && cur->count < minKeys) { ... }'
RECURSIVE Repair(_, _, _)
Repair(mc, cur, st) ==
    IF mc.fault THEN mc
    ELSE IF st = <<>> THEN mc
    ELSE IF ~Valid(mc.heap, cur) THEN Stop(mc)
    ELSE IF ~(mc.heap[cur].count < MinKeys(mc.m)) THEN mc
    ELSE LET parent == st[Len(st)]
             rest == SubSeq(st, 1, Len(st) - 1)
         IN IF ~Valid(mc.heap, parent) THEN Stop(mc)
            ELSE LET pn == mc.heap[parent]
                     pos == FindPos(pn, cur, 0)
                     left == IF pos > 0 THEN pn.children[pos - 1] ELSE NULL
                     right == IF pos < pn.count THEN pn.children[pos + 1] ELSE NULL
                 IN IF (left # NULL /\ ~Valid(mc.heap, left)) THEN Stop(mc)
                    ELSE IF left # NULL /\ mc.heap[left].count > MinKeys(mc.m)
                    THEN BorrowLeft(mc, cur, parent, left, pos)
                    ELSE IF (right # NULL /\ ~Valid(mc.heap, right)) THEN Stop(mc)
                    ELSE IF right # NULL /\ mc.heap[right].count > MinKeys(mc.m)
                    THEN BorrowRight(mc, cur, parent, right, pos)
                    ELSE IF left # NULL
                    THEN Repair(MergeLeft(mc, cur, parent, left, pos), parent, rest)
                    ELSE IF right # NULL
                    THEN Repair(MergeRight(mc, cur, parent, right, pos), parent, rest)
                    ELSE Repair(mc, cur, rest)

\* The removal from the leaf: `while (idx < cur->count - 1) ...; --cur->count;'
LeafRemove(mc, cur, idx) ==
    IF mc.fault THEN mc
    ELSE IF ~Valid(mc.heap, cur) \/ mc.heap[cur].count = 0 THEN Stop(mc)
    ELSE AddCount(MoveKeys(mc, cur, cur, Up(idx, mc.heap[cur].count - 1, 0, 1)), cur, -1)

\* The exchange with the predecessor when key is in an internal node:
\* `std::swap(temp->keys[idx], cur->keys[cur->count - 1])'.
SwapKeys(mc, temp, idx, cur) ==
    IF mc.fault THEN mc
    ELSE IF ~Valid(mc.heap, cur) \/ ~Valid(mc.heap, temp) THEN Stop(mc)
    ELSE LET j == mc.heap[cur].count - 1 IN
         IF ~(j \in KeyIndices(mc.m)) THEN OutOfRange(mc)
         ELSE LET a == mc.heap[temp].keys[idx]
                  b == mc.heap[cur].keys[j]
                  h1 == [mc.heap EXCEPT ![temp].keys[idx] = b]
              IN [mc EXCEPT !.heap = [h1 EXCEPT ![cur].keys[j] = a]]

\* toString(BNode*), which remove calls first to print the tree: it walks the
\* links 0..count of every internal node.  TRUE when the walk leaves the nodes
\* that exist.
RECURSIVE ToStringFaults(_, _, _)
ToStringFaults(h, node, fuel) ==
    IF node = NULL THEN FALSE
    ELSE IF ~Valid(h, node) \/ fuel = 0 THEN TRUE
    ELSE IF h[node].leaf THEN FALSE
    ELSE \E i \in 0..h[node].count :
            \/ i \notin DOMAIN h[node].children
            \/ ToStringFaults(h, h[node].children[i], fuel - 1)

\* remove(const TK& key): the machine it leaves, and whether key was found.
RemRes(mc, found, nn) == [mc |-> mc, found |-> found, n |-> nn]

\* The count is decremented although nothing was removed.
RemoveMiss_Decrements(mc, nn) == RemRes(mc, FALSE, nn - 1)

\* The descent ended on a null link: key is not in the tree, nothing is done.
RemoveMiss(mc, nn) == RemRes(mc, FALSE, nn)

remove(m, h, rt, nn, key, g, w) ==
    LET mc == Machine(m, h, g, w)
        f == RemoveFind(h, rt, key, <<>>, Len(h) + 1)
    IN IF ToStringFaults(h, rt, Len(h) + 1) \/ f.fault THEN RemRes(Stop(mc), FALSE, nn)
       ELSE IF ~f.found THEN RemoveMiss(mc, nn)
       ELSE IF ~h[f.cur].leaf
       THEN LET pr == PredLeaf(h, h[f.cur].children[f.idx], f.st, Len(h) + 1) IN
            IF pr.fault THEN RemRes(Stop(mc), TRUE, nn)
            ELSE LET s1 == SwapKeys(mc, f.cur, f.idx, pr.cur)
                     s2 == LeafRemove(s1, pr.cur, pr.idx)
                 IN IF s2.fault THEN RemRes(s2, TRUE, nn)
                    ELSE RemRes(Repair(s2, pr.cur, pr.st), TRUE, nn - 1)
       ELSE LET s2 == LeafRemove(mc, f.cur, f.idx) IN
            RemRes(Repair(s2, f.cur, f.st), TRUE, nn - 1)

----------------------------------------------------------------------------
\* Node::killSelf(): `for (i = 0; i < count + 1; ++i) children[i]->killSelf();
\* delete this;'.  The call through a null, wild or dangling link reads
\* `count' of no node.
RECURSIVE KillSelf(_, _, _)
RECURSIVE KillLoop(_, _, _, _)
KillSelf(mc, p, fuel) ==
    IF mc.fault THEN mc
    ELSE IF ~Valid(mc.heap, p) \/ fuel = 0 THEN Stop(mc)
    ELSE Delete(KillLoop(mc, p, 0, fuel), p)

KillLoop(mc, p, i, fuel) ==
    IF mc.fault \/ ~Valid(mc.heap, p) THEN Stop(mc)
    ELSE IF i < mc.heap[p].count + 1
    THEN KillLoop(KillSelf(mc, RdPtr(mc.m, mc.heap[p], i, mc.w), fuel - 1), p, i + 1, fuel)
    ELSE mc

\* clear(): `BTree(M).swap(*this)'; the temporary takes the old root and its
\* destructor runs `root->killSelf()' when the root is not null.
clear(m, h, rt) ==
    IF rt = NULL THEN Machine(m, h, 0, NULL)
    ELSE KillSelf(Machine(m, h, 0, NULL), rt, Len(h) + 1)

\* BTree(const std::size_t M) : M(M) {}: every order is accepted.
\* err is the error the call ended with: the constructor has no throw.
BTree(m) == [M |-> m, root |-> NULL, n |-> 0, err |-> "none"]

\* build_from_ordered_vector(elements, M): `new BTree(M)', then insert(el)
\* for each element in order.
RECURSIVE InsertAll(_, _, _, _)
InsertAll(m, t, elements, w) ==
    IF elements = <<>> \/ t.fault THEN t
    ELSE InsertAll(m, insert(m, t.heap, t.root, t.n, Head(elements), w),
                   Tail(elements), w)

build_from_ordered_vector(elements, m, w) ==
    LET result == BTree(m) IN
    InsertAll(m, TreeRes(<<>>, result.root, result.n, FALSE), elements, w)

\* minKey() / maxKey(): throw when root == nullptr, else the static walk.
EmptyTree == -3
minKey(m, h, rt) == IF rt = NULL THEN EmptyTree ELSE MinKeyOf(m, h, rt, Len(h) + 1)
maxKey(m, h, rt) == IF rt = NULL THEN EmptyTree ELSE MaxKeyOf(m, h, rt, Len(h) + 1)

\* height() and size().
height(h, rt) == Height(h, rt)
size(nn) == nn

----------------------------------------------------------------------------
\* Addresses are not observable: after each operation the nodes that some
\* link slot can still reach are renumbered in the order a depth-first walk
\* from the root meets them, and the others are dropped.  What a deleted
\* node held is never read again (an access to it stops the run).
InSeq(x, sq) == \E k \in 1..Len(sq) : sq[k] = x

SlotList(nd) == [k \in 1..(nd.count + 1) |-> nd.children[k - 1]]
AllSlots(m, nd) == [k \in 1..m |-> nd.children[k - 1]]

RECURSIVE Visit(_, _, _, _)
Visit(m, h, todo, seen) ==
    IF todo = <<>> THEN seen
    ELSE LET p == Head(todo) IN
         IF p < 1 \/ InSeq(p, seen) THEN Visit(m, h, Tail(todo), seen)
         ELSE IF ~h[p].live THEN Visit(m, h, Tail(todo), Append(seen, p))
         ELSE Visit(m, h, AllSlots(m, h[p]) \o Tail(todo), Append(seen, p))

Tombstone(m) == [NewNode(m, NULL) EXCEPT !.live = FALSE]

Canon(m, h, rt) ==
    LET order == Visit(m, h, <<rt>>, <<>>)
        at(p) == CHOOSE k \in 1..Len(order) : order[k] = p
        ren(p) == IF p >= 1 THEN at(p) ELSE p
    IN [root |-> ren(rt),
        heap |-> [k \in 1..Len(order) |->
                    LET nd == h[order[k]] IN
                    IF ~nd.live THEN Tombstone(m)
                    ELSE [nd EXCEPT !.children =
                             [j \in DOMAIN nd.children |-> ren(nd.children[j])]]]]

\* The nodes the traversals reach (through the slots 0..count), and the keys
\* they hold.
RECURSIVE Reach(_, _, _)
Reach(h, todo, seen) ==
    IF todo = <<>> THEN seen
    ELSE LET p == Head(todo) IN
         IF ~Valid(h, p) \/ InSeq(p, seen) THEN Reach(h, Tail(todo), seen)
         ELSE Reach(h, SlotList(h[p]) \o Tail(todo), Append(seen, p))

Nodes(h, rt) == LET sq == Reach(h, <<rt>>, <<>>) IN {sq[k] : k \in 1..Len(sq)}
StoredKeys(h, rt) ==
    UNION {{h[p].keys[i] : i \in 0..(h[p].count - 1)} : p \in Nodes(h, rt)}

\* The heap of every state is numbered in walk order already: a call that
\* left every node and the root as they were (h0, rt0) needs no renumbering.
Renumber(m, h0, rt0, h, rt) ==
    IF h = h0 /\ rt = rt0 THEN [root |-> rt, heap |-> h] ELSE Canon(m, h, rt)

----------------------------------------------------------------------------
\* The program: a tree is constructed, then insert, remove, clear and
\* build_from_ordered_vector are called in any order with any arguments.
\* abs is the set the same calls leave when replayed on a mathematical set;
\* last records the latest call; ops counts the calls since the tree was made.
Last(op, key, stored) == [op |-> op, key |-> key, stored |-> stored]

\* The strictly ascending sequence of the elements of a set of keys.
RECURSIVE Ascending(_)
Ascending(S) ==
    IF S = {} THEN <<>>
    ELSE LET x == CHOOSE y \in S : \A z \in S : y <= z IN <<x>> \o Ascending(S \ {x})

\* The inputs of build_from_ordered_vector: every strictly ascending vector of
\* keys, given as the set of its elements.
BuildInputs == SUBSET Keys

\* The inputs the trees of the call sequences are built from: 1..b and 2..b
\* for every b, the empty vector included.  A tree built from 2..b still has
\* room for a key on its left.
BuildSeeds == {a..b : a \in 1..2, b \in 0..MaxKey}

\* What insert(key) can leave: the words found in the child slots of a node
\* it allocates are indeterminate, and matter only if it allocates one.
InsertOutcomes(m, h, rt, nn, key) ==
    LET r0 == insert(m, h, rt, nn, key, NULL) IN
    {r0} \cup {insert(m, h, rt, nn, key, w) :
                  w \in (IF Len(r0.heap) > Len(h) THEN GarbagePtrs \ {NULL} ELSE {})}

\* What remove(key) can leave: one outcome for every value of the
\* indeterminate words, which matter only if the run reads one.
RemoveOutcomes(m, h, rt, nn, key) ==
    LET r0 == remove(m, h, rt, nn, key, 0, NULL)
        gs == IF r0.mc.ug THEN GarbageKeys ELSE {0}
        ws == IF r0.mc.uw THEN GarbagePtrs ELSE {NULL}
    IN {r0} \cup {remove(m, h, rt, nn, key, p[1], p[2]) :
                    p \in (gs \X ws) \ {<<0, NULL>>}}

Init ==
    \E m \in Orders :
        LET t == BTree(m) IN
        /\ M = t.M
        /\ root = t.root
        /\ n = t.n
        /\ err = t.err
        /\ heap = <<>>
        /\ fault = FALSE
        /\ abs = {}
        /\ last = Last("new", 0, FALSE)
        /\ ops = 0

Insert(key) ==
    /\ ~fault
    /\ ops < MaxOps
    /\ \E r \in InsertOutcomes(M, heap, root, n, key) :
          LET c == Renumber(M, heap, root, r.heap, r.root)
          IN /\ heap' = c.heap
             /\ root' = c.root
             /\ n' = r.n
             /\ fault' = r.fault
    /\ abs' = abs \cup {key}
    /\ last' = Last("insert", key, key \in StoredKeys(heap, root))
    /\ ops' = ops + 1
    /\ UNCHANGED <<M, err>>

Remove(key) ==
    /\ ~fault
    /\ ops < MaxOps
    /\ \E r \in RemoveOutcomes(M, heap, root, n, key) :
          LET c == Renumber(M, heap, root, r.mc.heap, root)
          IN /\ heap' = c.heap
             /\ root' = c.root
             /\ n' = r.n
             /\ fault' = r.mc.fault
    /\ abs' = abs \ {key}
    /\ last' = Last("remove", key, key \in StoredKeys(heap, root))
    /\ ops' = ops + 1
    /\ UNCHANGED <<M, err>>

Clear ==
    /\ ~fault
    /\ ops < MaxOps
    /\ LET r == clear(M, heap, root)
           c == Canon(M, r.heap, NULL)
       IN /\ heap' = c.heap
          /\ root' = c.root
          /\ fault' = r.fault
    /\ n' = 0
    /\ abs' = {}
    /\ last' = Last("clear", 0, FALSE)
    /\ ops' = ops + 1
    /\ UNCHANGED <<M, err>>

Build(S, m) ==
    /\ last.op = "new"
    /\ \E w \in GarbagePtrs :
          LET r == build_from_ordered_vector(Ascending(S), m, w)
              c == Canon(m, r.heap, r.root)
          IN /\ heap' = c.heap
             /\ root' = c.root
             /\ n' = r.n
             /\ fault' = r.fault
    /\ M' = m
    /\ err' = BTree(m).err
    /\ abs' = S
    /\ last' = Last("build", 0, FALSE)
    /\ ops' = 0

Next ==
    \/ \E key \in Keys : Insert(key)
    \/ \E key \in Keys : Remove(key)
    \/ Clear
    \/ \E S \in BuildSeeds, m \in Orders : Build(S, m)

Spec == Init /\ [][Next]_vars

\* build_from_ordered_vector alone, on every input tried and every order.
NextBuild == \E S \in BuildInputs, m \in Orders : Build(S, m)

SpecBuild == Init /\ [][NextBuild]_vars

----------------------------------------------------------------------------
\* What the claims speak of.
Present == StoredKeys(heap, root)
CountSum(h, rt) ==
    LET sq == Reach(h, <<rt>>, <<>>)
        sum[k \in 0..Len(sq)] == IF k = 0 THEN 0 ELSE sum[k - 1] + h[sq[k]].count
    IN sum[Len(sq)]
SetMin(S) == CHOOSE x \in S : \A y \in S : x <= y
SetMax(S) == CHOOSE x \in S : \A y \in S : x >= y
\* The state is one a sequence of completed insert and remove calls on a tree
\* of order at least 3 has left (build_from_ordered_vector is such a sequence).
AfterInsertsAndRemoves == M >= 3 /\ ~fault /\ last.op # "clear"

\* C1: after every insert and remove on a tree of order M >= 3 that began
\* empty, check_properties() returns true.
C1_CheckPropertiesHolds ==
    AfterInsertsAndRemoves => check_properties(M, heap, root)

\* C2: after any sequence of inserts and removes, search(k) is true exactly
\* for the keys of the set obtained by replaying the calls on a set.
C2_SearchMatchesSet ==
    AfterInsertsAndRemoves =>
        \A k \in Keys : (search(heap, root, k) = "found") <=> (k \in abs)

\* C3: after any sequence of inserts and removes, size() is the number of
\* distinct keys stored in the nodes reachable from the root, which is the sum
\* of their counts.
C3_SizeIsKeyCount ==
    AfterInsertsAndRemoves =>
        /\ size(n) = Cardinality(Present)
        /\ size(n) = CountSum(heap, root)

\* C4: a remove(k) that returns, for a key k that is not present (no node
\* reachable from the root holds it, or search(k) is false), leaves the root,
\* every node's keys, count, leaf flag and child links, and size() as they were.
C4_RemoveAbsentChangesNothing ==
    [][(/\ last'.op = "remove"
        /\ (~last'.stored \/ search(heap, root, last'.key) = "absent")
        /\ M >= 3 /\ ~fault')
          => (root' = root /\ heap' = heap /\ n' = n)]_vars

\* An absent key is removed from a tree of more than one level.
C4_Witness ==
    /\ last.op = "remove" /\ ~last.stored /\ M >= 3 /\ ~fault
    /\ root # NULL /\ ~heap[root].leaf /\ n >= 3

\* C5: an insert(k) that returns, for a key k already held by a node reachable
\* from the root, changes neither size() nor the key set; and a second
\* insert(k) right after an insert(k) leaves the tree of the first.
C5_InsertPresentChangesNothing ==
    [][/\ (last'.op = "insert" /\ last'.stored /\ M >= 3 /\ ~fault')
            => (n' = n /\ StoredKeys(heap', root') = Present
                /\ root' = root /\ heap' = heap)
       /\ (last'.op = "insert" /\ last.op = "insert" /\ last'.key = last.key
           /\ M >= 3 /\ ~fault')
            => (n' = n /\ root' = root /\ heap' = heap)]_vars

\* C6: rangeSearch(a, b) returns the present keys k with a <= k <= b, each
\* once and ascending; nothing when a > b.
C6_RangeSearchExact ==
    AfterInsertsAndRemoves =>
        \A a \in Keys, b \in Keys :
            rangeSearch(heap, root, a, b) = Ascending({k \in abs : a <= k /\ k <= b})

\* C7: while the tree holds a key, minKey() is the smallest present key and
\* maxKey() the largest.
C7_MinMaxAreExtremes ==
    (AfterInsertsAndRemoves /\ abs # {}) =>
        /\ minKey(M, heap, root) = SetMin(abs)
        /\ maxKey(M, heap, root) = SetMax(abs)

\* C8: while size() is 0, minKey() and maxKey() fail with EmptyTree.
C8_EmptyTreeThrows ==
    (M >= 3 /\ ~fault /\ size(n) = 0) =>
        /\ minKey(M, heap, root) = EmptyTree
        /\ maxKey(M, heap, root) = EmptyTree

\* C9: with an order below 3 the constructor and build_from_ordered_vector
\* fail with InvalidOrder, there is no tree, and nothing is inserted.
C9_InvalidOrderRejected ==
    M < 3 => (err = "InvalidOrder" /\ root = NULL /\ n = 0 /\ last.op # "insert")

\* C10: for a strictly ascending input and an order M >= 3,
\* build_from_ordered_vector returns a tree that holds exactly the input's
\* keys, whose size() is the input's length, whose height() is the height
\* the one-at-a-time inserts give, and that passes check_properties().
C10_BulkLoad ==
    (last.op = "build" /\ M >= 3) =>
        /\ ~fault
        /\ Present = abs
        /\ size(n) = Cardinality(abs)
        /\ \A k \in Keys : (search(heap, root, k) = "found") <=> (k \in abs)
        /\ \A w \in GarbagePtrs :
              LET t == InsertAll(M, TreeRes(<<>>, NULL, 0, FALSE), Ascending(abs), w)
              IN height(heap, root) = height(t.heap, t.root)
        /\ (abs = {}) <=> (height(heap, root) = -1)
        /\ check_properties(M, heap, root)

\* The scenario of the specification: [1..7] with M = 3.
C10_Witness ==
    /\ last.op = "build" /\ M = 3 /\ abs = 1..7
    /\ size(n) = 7 /\ height(heap, root) = 2

----------------------------------------------------------------------------
\* C11: clear() on a tree reached by inserts and removes returns, deletes
\* every node the tree owned exactly once without going through a link that
\* leads to no node, and leaves root null, size() 0 and search(k) false for
\* every k.
C11_ClearReleasesAll ==
    [][(last'.op = "clear" /\ M >= 3) =>
          /\ LET r == clear(M, heap, root) IN
             /\ ~r.fault
             /\ \A p \in Nodes(heap, root) : ~r.heap[p].live
          /\ ~fault'
          /\ root' = NULL
          /\ size(n') = 0
          /\ \A k \in Keys : search(heap', root', k) = "absent"]_vars

\* The depths (in edges from `node' at depth d) of the leaves under `node';
\* HFault stands for a link 0..count of an internal node that leads to no node.
RECURSIVE LeafDepths(_, _, _, _)
LeafDepths(h, node, d, fuel) ==
    IF ~Valid(h, node) \/ fuel = 0 THEN {HFault}
    ELSE IF h[node].leaf THEN {d}
    ELSE UNION {LeafDepths(h, h[node].children[i], d + 1, fuel - 1) :
                   i \in 0..h[node].count}

\* C12: after any sequence of inserts, removes and clears, height() is -1
\* exactly when the tree holds no keys, and otherwise it is the number of
\* edges from the root to a leaf, the same for every leaf.
C12_HeightIsLeafDepth ==
    (M >= 3 /\ ~fault) =>
        /\ (height(heap, root) = -1) <=> (Present = {})
        /\ (Present # {}) =>
              LeafDepths(heap, root, 0, Len(heap) + 1) = {height(heap, root)}

----------------------------------------------------------------------------
\* Sequences of insert calls alone on a tree that began empty, up to
\* MaxInserts calls.
MaxInserts == 7

InsertOnly(key) ==
    /\ ~fault
    /\ ops < MaxInserts
    /\ \E r \in InsertOutcomes(M, heap, root, n, key) :
          LET c == Renumber(M, heap, root, r.heap, r.root)
          IN /\ heap' = c.heap
             /\ root' = c.root
             /\ n' = r.n
             /\ fault' = r.fault
    /\ abs' = abs \cup {key}
    /\ last' = Last("insert", key, key \in StoredKeys(heap, root))
    /\ ops' = ops + 1
    /\ UNCHANGED <<M, err>>

NextInsert == \E key \in Keys : InsertOnly(key)

SpecInsert == Init /\ [][NextInsert]_vars

\* The shape of a B-tree of order m under rt: the key counts, the order of
\* the keys in each node, the count + 1 children of each internal node, the
\* leaves at one depth, and each separator strictly between the keys of the
\* subtrees on its two sides.
WellFormed(m, h, rt) ==
    /\ Valid(h, rt)
    /\ \A p \in Nodes(h, rt) :
          LET nd == h[p] IN
          /\ nd.count <= m - 1
          /\ nd.count >= (IF p = rt THEN 1 ELSE ((m + 1) \div 2) - 1)
          /\ \A i \in 0..(nd.count - 2) : nd.keys[i] < nd.keys[i + 1]
          /\ ~nd.leaf =>
                /\ \A i \in 0..nd.count : Valid(h, nd.children[i])
                /\ \A i \in 0..(nd.count - 1) :
                      /\ \A k \in StoredKeys(h, nd.children[i]) : k < nd.keys[i]
                      /\ \A k \in StoredKeys(h, nd.children[i + 1]) : nd.keys[i] < k
    /\ Cardinality(LeafDepths(h, rt, 0, Len(h) + 1)) = 1
    /\ HFault \notin LeafDepths(h, rt, 0, Len(h) + 1)

\* C13: in a sequence of inserts alone (duplicates allowed) on a tree of order
\* M >= 3 that began empty, after each insert every non-root node holds
\* ceil(M/2)-1 to M-1 keys and the root 1 to M-1, the keys of each node
\* increase strictly, every internal node has count+1 children, the leaves are
\* at one depth, every separator lies strictly between its two subtrees, and
\* the height has grown by 0 or by 1, by 1 only when the split went past the
\* root or the tree was empty.
C13_InsertKeepsShape ==
    [][(last'.op = "insert" /\ M >= 3) =>
          /\ ~fault'
          /\ WellFormed(M, heap', root')
          /\ height(heap', root') - height(heap, root) \in {0, 1}
          /\ (height(heap', root') = height(heap, root) + 1) =>
                (root = NULL
                 \/ InsertRec(M, heap, root, last'.key, NULL, Len(heap) + 1).split)]_vars

\* A seventh key makes the split of a leaf go past an internal root of order 3.
C13_Witness ==
    /\ last.op = "insert" /\ ~last.stored /\ M = 3 /\ ~fault
    /\ ops = 7 /\ size(n) = 7 /\ height(heap, root) = 2

----------------------------------------------------------------------------
\* C14: when the repair of a remove merges the two children of a root that
\* held one key, the remaining child becomes the root and height() goes down
\* by one; so after a remove the root never has zero keys and a child.
C14_RootCollapses ==
    [][(last'.op = "remove" /\ M >= 3 /\ ~fault') =>
          /\ ~(root' # NULL /\ ~heap'[root'].leaf /\ heap'[root'].count = 0)
          /\ LET r == remove(M, heap, root, n, last'.key, 0, NULL) IN
             (/\ root # NULL /\ ~heap[root].leaf /\ heap[root].count = 1
              /\ ~r.mc.fault /\ r.mc.heap[root].count = 0)
                => height(heap', root') = height(heap, root) - 1]_vars

----------------------------------------------------------------------------
\* remove up to the repair loop: the machine after the removal from the leaf,
\* the leaf cur and the stack st the loop starts with.
RepairStart(m, h, rt, key, g, w) ==
    LET mc == Machine(m, h, g, w)
        f == RemoveFind(h, rt, key, <<>>, Len(h) + 1)
    IN IF ToStringFaults(h, rt, Len(h) + 1) \/ f.fault \/ ~f.found
       THEN [mc |-> Stop(mc), cur |-> NULL, st |-> <<>>]
       ELSE IF ~h[f.cur].leaf
       THEN LET pr == PredLeaf(h, h[f.cur].children[f.idx], f.st, Len(h) + 1) IN
            IF pr.fault THEN [mc |-> Stop(mc), cur |-> NULL, st |-> <<>>]
            ELSE [mc |-> LeafRemove(SwapKeys(mc, f.cur, f.idx, pr.cur), pr.cur, pr.idx),
                  cur |-> pr.cur, st |-> pr.st]
       ELSE [mc |-> LeafRemove(mc, f.cur, f.idx), cur |-> f.cur, st |-> f.st]

\* The repair loop again, asking at each turn whether cur is one of the links
\* 0..parent->count of the node popped as its parent.
RECURSIVE PairsOK(_, _, _)
PairsOK(mc, cur, st) ==
    IF mc.fault \/ st = <<>> \/ ~Valid(mc.heap, cur) THEN TRUE
    ELSE IF ~(mc.heap[cur].count < MinKeys(mc.m)) THEN TRUE
    ELSE LET parent == st[Len(st)]
             rest == SubSeq(st, 1, Len(st) - 1)
         IN /\ Valid(mc.heap, parent)
            /\ LET pn == mc.heap[parent]
                   pos == FindPos(pn, cur, 0)
                   left == IF pos > 0 THEN pn.children[pos - 1] ELSE NULL
                   right == IF pos < pn.count THEN pn.children[pos + 1] ELSE NULL
               IN /\ pos <= pn.count
                  /\ IF (left # NULL /\ ~Valid(mc.heap, left)) THEN TRUE
                     ELSE IF left # NULL /\ mc.heap[left].count > MinKeys(mc.m) THEN TRUE
                     ELSE IF (right # NULL /\ ~Valid(mc.heap, right)) THEN TRUE
                     ELSE IF right # NULL /\ mc.heap[right].count > MinKeys(mc.m) THEN TRUE
                     ELSE IF left # NULL
                     THEN PairsOK(MergeLeft(mc, cur, parent, left, pos), parent, rest)
                     ELSE IF right # NULL
                     THEN PairsOK(MergeRight(mc, cur, parent, right, pos), parent, rest)
                     ELSE PairsOK(mc, cur, rest)

\* C15: in remove, each node the repair loop pops as the parent of cur has
\* cur among its links 0..count, also when the key was in an internal node
\* and was exchanged with its predecessor; and no leaf other than the root is
\* left below the minimum because the stack is empty.
C15_ParentOnStack ==
    [][(last'.op = "remove" /\ last'.stored /\ M >= 3 /\ ~fault') =>
          \A g \in GarbageKeys, w \in GarbagePtrs :
             LET s == RepairStart(M, heap, root, last'.key, g, w) IN
             ~s.mc.fault =>
                /\ PairsOK(s.mc, s.cur, s.st)
                /\ ~(s.st = <<>> /\ s.cur # root
                     /\ s.mc.heap[s.cur].count < MinKeys(M))]_vars

----------------------------------------------------------------------------
\* The turns of the repair loop in order: which case each takes, on which
\* machine state, with which cur, parent (the top of the stack st), sibling
\* and pos.
Turn(case, mc, cur, st, sib, pos) ==
    [case |-> case, mc |-> mc, cur |-> cur, parent |-> st[Len(st)], st |-> st,
     sib |-> sib, pos |-> pos]

RECURSIVE RepairTurns(_, _, _)
RepairTurns(mc, cur, st) ==
    IF mc.fault \/ st = <<>> \/ ~Valid(mc.heap, cur) THEN <<>>
    ELSE IF ~(mc.heap[cur].count < MinKeys(mc.m)) THEN <<>>
    ELSE LET parent == st[Len(st)]
             rest == SubSeq(st, 1, Len(st) - 1)
         IN IF ~Valid(mc.heap, parent) THEN <<>>
            ELSE LET pn == mc.heap[parent]
                     pos == FindPos(pn, cur, 0)
                     left == IF pos > 0 THEN pn.children[pos - 1] ELSE NULL
                     right == IF pos < pn.count THEN pn.children[pos + 1] ELSE NULL
                 IN IF (left # NULL /\ ~Valid(mc.heap, left)) THEN <<>>
                    ELSE IF left # NULL /\ mc.heap[left].count > MinKeys(mc.m)
                    THEN <<Turn("1.1", mc, cur, st, left, pos)>>
                    ELSE IF (right # NULL /\ ~Valid(mc.heap, right)) THEN <<>>
                    ELSE IF right # NULL /\ mc.heap[right].count > MinKeys(mc.m)
                    THEN <<Turn("1.2", mc, cur, st, right, pos)>>
                    ELSE IF left # NULL
                    THEN <<Turn("2.1", mc, cur, st, left, pos)>>
                         \o RepairTurns(MergeLeft(mc, cur, parent, left, pos), parent, rest)
                    ELSE IF right # NULL
                    THEN <<Turn("2.2", mc, cur, st, right, pos)>>
                         \o RepairTurns(MergeRight(mc, cur, parent, right, pos), parent, rest)
                    ELSE RepairTurns(mc, cur, rest)

\* The turns of the repair loop of remove(key) on the tree (h, rt).
TurnsOfRemove(m, h, rt, key, g, w) ==
    LET s == RepairStart(m, h, rt, key, g, w) IN
    IF s.mc.fault THEN <<>> ELSE RepairTurns(s.mc, s.cur, s.st)

\* In the turn t, cur is the link pos of the node popped as its parent.
Paired(t) ==
    /\ t.pos <= t.mc.heap[t.parent].count
    /\ t.mc.heap[t.parent].children[t.pos] = t.cur

\* What a borrow from the left sibling has to leave, for the turn t.
BorrowLeftExact(t) ==
    LET old == t.mc.heap
        a == BorrowLeft(t.mc, t.cur, t.parent, t.sib, t.pos)
        c == old[t.cur].count
        lc == old[t.sib].count
    IN /\ ~a.fault
       /\ (t.pos - 1) \in 0..(old[t.parent].count - 1)
       /\ a.heap[t.cur].count = c + 1
       /\ a.heap[t.cur].keys[0] = old[t.parent].keys[t.pos - 1]
       /\ \A i \in 0..(c - 1) : a.heap[t.cur].keys[i + 1] = old[t.cur].keys[i]
       /\ ~old[t.cur].leaf =>
             /\ a.heap[t.cur].children[0] = old[t.sib].children[lc]
             /\ \A i \in 0..c : a.heap[t.cur].children[i + 1] = old[t.cur].children[i]
       /\ a.heap[t.parent].keys[t.pos - 1] = old[t.sib].keys[lc - 1]
       /\ a.heap[t.parent].count = old[t.parent].count
       /\ a.heap[t.sib].count = lc - 1
       /\ \A i \in 0..(lc - 2) : a.heap[t.sib].keys[i] = old[t.sib].keys[i]
       /\ \A i \in 0..(lc - 1) : a.heap[t.sib].children[i] = old[t.sib].children[i]
       /\ Repair(t.mc, t.cur, t.st) = a

\* C16: a borrow from the left sibling leaves in the underflowing node the old
\* separator followed by its previous keys in order (and the sibling's old
\* last child followed by its previous children), in the parent the sibling's
\* old largest key as separator, in the sibling one key and one child less;
\* nothing is lost or duplicated and the repair stops there.  For every
\* M >= 3, for leaves and for internal nodes; stated for the turns in which
\* cur is a child of the node popped as its parent.
C16_BorrowLeftExact ==
    [][(last'.op = "remove" /\ last'.stored /\ M >= 3) =>
          \A g \in GarbageKeys, w \in GarbagePtrs :
             LET ts == TurnsOfRemove(M, heap, root, last'.key, g, w) IN
             \A k \in 1..Len(ts) :
                (ts[k].case = "1.1" /\ Paired(ts[k])) => BorrowLeftExact(ts[k])]_vars

----------------------------------------------------------------------------
\* What a merge has to leave, for the turn t: lft and rgt are the two nodes
\* in key order, surv the one that stays, gone the one that is deleted, and
\* sep the index of the separator between them in the parent.
MergeExact(t) ==
    LET old == t.mc.heap
        isLeft == t.case = "2.1"
        a == IF isLeft THEN MergeLeft(t.mc, t.cur, t.parent, t.sib, t.pos)
             ELSE MergeRight(t.mc, t.cur, t.parent, t.sib, t.pos)
        lft == IF isLeft THEN t.sib ELSE t.cur
        rgt == IF isLeft THEN t.cur ELSE t.sib
        surv == lft
        gone == rgt
        sep == IF isLeft THEN t.pos - 1 ELSE t.pos
        cl == old[lft].count
        cr == old[rgt].count
        pc == old[t.parent].count
    IN /\ ~a.fault
       /\ sep \in 0..(pc - 1)
       /\ old[t.parent].children[sep] = lft
       /\ old[t.parent].children[sep + 1] = rgt
       /\ a.heap[surv].count = cl + 1 + cr
       /\ \A i \in 0..(cl - 1) : a.heap[surv].keys[i] = old[lft].keys[i]
       /\ a.heap[surv].keys[cl] = old[t.parent].keys[sep]
       /\ \A i \in 0..(cr - 1) : a.heap[surv].keys[cl + 1 + i] = old[rgt].keys[i]
       /\ ~old[lft].leaf =>
             /\ \A i \in 0..cl : a.heap[surv].children[i] = old[lft].children[i]
             /\ \A i \in 0..cr : a.heap[surv].children[cl + 1 + i] = old[rgt].children[i]
       /\ a.heap[t.parent].count = pc - 1
       /\ \A i \in 0..(sep - 1) : a.heap[t.parent].keys[i] = old[t.parent].keys[i]
       /\ \A i \in sep..(pc - 2) : a.heap[t.parent].keys[i] = old[t.parent].keys[i + 1]
       /\ \A i \in 0..sep : a.heap[t.parent].children[i] = old[t.parent].children[i]
       /\ \A i \in (sep + 1)..(pc - 1) :
             a.heap[t.parent].children[i] = old[t.parent].children[i + 1]
       /\ ~a.heap[gone].live
       /\ Repair(t.mc, t.cur, t.st)
             = Repair(a, t.parent, SubSeq(t.st, 1, Len(t.st) - 1))

\* C17: a merge of the underflowing node with a sibling (cur is a child of
\* the node popped as its parent) leaves in the node that stays the keys of
\* the left node, the separator, the keys of the right node (and the children
\* of the left node, then those of the right node); the parent loses that
\* separator and the link to the deleted node, its other keys and links keep
\* their order; the repair goes on with the parent.
C17_MergeExact ==
    [][(last'.op = "remove" /\ last'.stored /\ M >= 3) =>
          LET r0 == remove(M, heap, root, n, last'.key, 0, NULL) IN
          \A g \in (IF r0.mc.ug THEN GarbageKeys ELSE {0}),
             w \in (IF r0.mc.uw THEN GarbagePtrs ELSE {NULL}) :
             LET ts == TurnsOfRemove(M, heap, root, last'.key, g, w) IN
             \A k \in 1..Len(ts) :
                (ts[k].case \in {"2.1", "2.2"} /\ Paired(ts[k]))
                   => MergeExact(ts[k])]_vars

\* remove(1) on the tree of 1..7 of order 3: the leaves [] and [3] merge
\* around 2, then the internal nodes [] and [6] merge around 4.
C17_Witness ==
    /\ last.op = "remove" /\ last.key = 1 /\ last.stored /\ ~fault
    /\ M = 3 /\ abs = 2..7 /\ ops = 1
    /\ root # NULL /\ ~heap[root].leaf
    /\ LET c == heap[root].children[0] IN
       /\ Valid(heap, c) /\ ~heap[c].leaf /\ heap[c].count = 2
       /\ heap[c].keys[0] = 4 /\ heap[c].keys[1] = 6
       /\ LET d == heap[c].children[0] IN
          /\ Valid(heap, d) /\ heap[d].leaf /\ heap[d].count = 2
          /\ heap[d].keys[0] = 2 /\ heap[d].keys[1] = 3

----------------------------------------------------------------------------
\* The nodes reached from rt through the links 0..count of internal nodes.
RECURSIVE Owned(_, _, _)
Owned(h, todo, seen) ==
    IF todo = <<>> THEN seen
    ELSE LET p == Head(todo) IN
         IF ~Valid(h, p) \/ InSeq(p, seen) THEN Owned(h, Tail(todo), seen)
         ELSE IF h[p].leaf THEN Owned(h, Tail(todo), Append(seen, p))
         ELSE Owned(h, SlotList(h[p]) \o Tail(todo), Append(seen, p))

OwnedNodes(h, rt) == LET sq == Owned(h, <<rt>>, <<>>) IN {sq[k] : k \in 1..Len(sq)}

\* The links (node, index) of reachable internal nodes that hold the address p.
LinksTo(h, rt, p) ==
    {<<q, i>> \in OwnedNodes(h, rt) \X (0..(Len(h) + MaxOrder)) :
        /\ ~h[q].leaf /\ i <= h[q].count /\ i \in DOMAIN h[q].children
        /\ h[q].children[i] = p}

\* C18: after any sequence of inserts and removes, every node reachable from
\* the root is held by exactly one child link, the root by none (so the links
\* form no cycle), and no link 0..count of a reachable internal node holds the
\* address of a deleted node.
C18_SingleOwner ==
    AfterInsertsAndRemoves =>
        /\ \A p \in OwnedNodes(heap, root) :
              Cardinality(LinksTo(heap, root, p)) = (IF p = root THEN 0 ELSE 1)
        /\ \A p \in 1..Len(heap) :
              ~heap[p].live => LinksTo(heap, root, p) = {}

----------------------------------------------------------------------------
\* The child slots 0..count of the node at p that do not hold the null link.
NonNullSlots(h, p) == {i \in 0..h[p].count : h[p].children[i] # NULL}

\* C19: after any sequence of inserts and removes, every leaf reachable from
\* the root has the null link in each of its child slots 0..count: none of
\* them holds the word the allocation left there, or the address of a node.
C19_LeafSlotsNull ==
    AfterInsertsAndRemoves =>
        \A p \in OwnedNodes(heap, root) :
            heap[p].leaf => NonNullSlots(heap, p) = {}

----------------------------------------------------------------------------
\* The indices at which insert(BNode*, TK) accesses the arrays of the node nd,
\* i being where the scan stops and split whether the call below returned a
\* pair: the scan and the duplicate test read keys[0..i] below count and the
\* descent reads children[i]; with space left the shift touches keys[i..count]
\* and children[i..count + 1]; without, the copy to keys_tmp / children_tmp and
\* back touches every place of both arrays.
InsertAccess(m, nd, i, split) ==
    [keys     |-> {j \in 0..i : j < nd.count}
                  \cup (IF ~split THEN {}
                        ELSE IF nd.count < m - 1 THEN i..nd.count ELSE 0..(m - 2)),
     children |-> {i}
                  \cup (IF ~split THEN {}
                        ELSE IF nd.count < m - 1 THEN i..(nd.count + 1) ELSE 0..(m - 1))]

\* Some access of insert(node, key), the calls below it included, is outside
\* the array it is made to.
RECURSIVE InsertOutOfRange(_, _, _, _, _)
InsertOutOfRange(m, h, node, key, fuel) ==
    IF node = NULL \/ ~Valid(h, node) \/ fuel = 0 THEN FALSE
    ELSE LET nd == h[node]
             i == FindIdx(nd, key, 0)
         IN IF KeyAt(nd, i, key)
            THEN ~(InsertAccess(m, nd, i, FALSE).keys \subseteq KeyIndices(m))
            ELSE LET r == InsertRec(m, h, nd.children[i], key, NULL, fuel - 1)
                     acc == InsertAccess(m, nd, i, ~r.fault /\ r.split)
                 IN \/ ~(acc.keys \subseteq KeyIndices(m))
                    \/ ~(acc.children \subseteq ChildIndices(m))
                    \/ InsertOutOfRange(m, h, nd.children[i], key, fuel - 1)

\* Some access of the repair of remove(key) is outside the array it is made
\* to, whatever the indeterminate words read on the way are.
RemoveOutOfRange(m, h, rt, nn, key) ==
    \E r \in RemoveOutcomes(m, h, rt, nn, key) : r.mc.oob

\* C20: during an insert or a remove on a tree of order M >= 3, every access
\* to the key array of a node is at an index in 0..M-2 and every access to its
\* child array at an index in 0..M-1, the shifts in the parent after a merge
\* included.
C20_IndicesInRange ==
    [][(M >= 3 /\ ~fault) =>
          /\ last'.op = "insert" =>
                ~InsertOutOfRange(M, heap, root, last'.key, Len(heap) + 1)
          /\ last'.op = "remove" =>
                ~RemoveOutOfRange(M, heap, root, n, last'.key)]_vars

====
